---- MODULE Spec2Model ----
(***************************************************************************)
(* Model of the Solana-style transaction builder of wallet-srv             *)
(* (package solana: NewTransaction, filterUnique, indexOf, SetBlockhash,   *)
(* Sign).  Public keys are 32-byte identifiers, modelled as the numbers    *)
(* 1..NumKeys; a private key is identified with its public key.            *)
(***************************************************************************)
EXTENDS Integers, Sequences, FiniteSets, TLC

\* ------------------------------------------------------------------ bounds
NumKeys == 4
MaxRefs == 3
MaxSignInstructions == 1
NumSignPayers == 1
MaxSigners == 2
NumBlockhashes == 1

\* ------------------------------------------------------------- value types
Keys == 1..NumKeys
\* a key of length zero (the case lines 99-103 pad); no well-formed input has it
EmptyKey == 0
\* make([]byte, ed25519.PublicKeySize): the all-zero 32-byte key
ZeroKey == 1
\* the zero value of Blockhash is 0; SetBlockhash may install any of these
Blockhashes == 0..NumBlockhashes
\* the zero value of Signature (64 zero bytes): an unfilled slot
EmptySig == [key |-> EmptyKey, msg |-> <<>>]

Byte(n) == n % 256

\* what a caller outside the package can build: the unexported role flags
\* isPayer and isProgram are false
CallerAccountMetas ==
    [PublicKey : Keys, IsSigner : BOOLEAN, IsWritable : BOOLEAN,
     isPayer : {FALSE}, isProgram : {FALSE}]

SeqsUpTo(S, n) == UNION {[1..k -> S] : k \in 0..n}

Range(s) == {s[i] : i \in 1..Len(s)}

\* -------------------------------------------------------------- filterUnique
\* a merge that takes the flags of the latest appearance
MergeOverwrite(f, a) ==
    [f EXCEPT !.IsSigner = a.IsSigner,
              !.IsWritable = a.IsWritable,
              !.isPayer = a.isPayer]

MergeInto(f, a) ==
    [f EXCEPT !.IsSigner = IF a.IsSigner THEN TRUE ELSE @,
              !.IsWritable = IF a.IsWritable THEN TRUE ELSE @,
              !.isPayer = IF a.isPayer THEN TRUE ELSE @]

\* the inner loop: the position in filtered holding the key of a, or 0
SeenAt(filtered, a) ==
    IF \E j \in 1..Len(filtered) : filtered[j].PublicKey = a.PublicKey
    THEN CHOOSE j \in 1..Len(filtered) :
            /\ filtered[j].PublicKey = a.PublicKey
            /\ \A h \in 1..(j - 1) : filtered[h].PublicKey # a.PublicKey
    ELSE 0

RECURSIVE filterUniqueFrom(_, _, _)
filterUniqueFrom(accts, i, filtered) ==
    IF i > Len(accts) THEN filtered
    ELSE LET j == SeenAt(filtered, accts[i])
         IN  IF j # 0
             THEN filterUniqueFrom(accts, i + 1,
                     [filtered EXCEPT ![j] = MergeInto(@, accts[i])])
             ELSE filterUniqueFrom(accts, i + 1, Append(filtered, accts[i]))

filterUnique(accts) == filterUniqueFrom(accts, 1, <<>>)

\* ------------------------------------------------------------------ indexOf
\* a lookup that returns the 1-based position
indexOfOneBased(slice, item) ==
    IF \E i \in 1..Len(slice) : slice[i] = item
    THEN CHOOSE i \in 1..Len(slice) :
            /\ slice[i] = item
            /\ \A h \in 1..(i - 1) : slice[h] # item
    ELSE -1

\* 0-based index of the first equal key, -1 when there is none
indexOf(slice, item) ==
    IF \E i \in 1..Len(slice) : slice[i] = item
    THEN (CHOOSE i \in 1..Len(slice) :
            /\ slice[i] = item
            /\ \A h \in 1..(i - 1) : slice[h] # item) - 1
    ELSE -1

\* ------------------------------------------------------ SortableAccountMeta
\* comparator (isPayer desc, isSigner desc, isWritable desc, isProgram asc)
Less(a, b) ==
    IF a.isPayer # b.isPayer THEN a.isPayer
    ELSE IF a.IsSigner # b.IsSigner THEN a.IsSigner
    ELSE IF a.IsWritable # b.IsWritable THEN a.IsWritable
    ELSE IF a.isProgram # b.isProgram THEN ~a.isProgram
    ELSE FALSE

\* sort.Sort: some ordering of the elements with no pair out of order; the
\* relative order of elements that compare equal is not fixed by sort.Sort
RECURSIVE SortResults(_)
SortResults(S) ==
    IF S = {} THEN {<<>>}
    ELSE UNION {{<<m>> \o t : t \in SortResults(S \ {m})} :
                  m \in {x \in S : \A y \in S : ~Less(y, x)}}

\* ------------------------------------------------------------ NewTransaction
\* a payer entry without the isPayer flag
PayerMetaUnflagged(p) ==
    [PublicKey |-> p, IsSigner |-> TRUE, IsWritable |-> TRUE,
     isPayer |-> FALSE, isProgram |-> FALSE]

PayerMeta(p) ==
    [PublicKey |-> p, IsSigner |-> TRUE, IsWritable |-> TRUE,
     isPayer |-> TRUE, isProgram |-> FALSE]

\* a program entry without the isProgram flag
ProgramMetaUnflagged(g) ==
    [PublicKey |-> g, IsSigner |-> FALSE, IsWritable |-> FALSE,
     isPayer |-> FALSE, isProgram |-> FALSE]

ProgramMeta(g) ==
    [PublicKey |-> g, IsSigner |-> FALSE, IsWritable |-> FALSE,
     isPayer |-> FALSE, isProgram |-> TRUE]

RECURSIVE CollectFrom(_, _)
CollectFrom(instrs, i) ==
    IF i > Len(instrs) THEN <<>>
    ELSE <<ProgramMeta(instrs[i].Program)>> \o instrs[i].Accounts
         \o CollectFrom(instrs, i + 1)

\* the account list before filterUnique (lines 43-59)
Collect(p, instrs) == <<PayerMeta(p)>> \o CollectFrom(instrs, 1)

\* a count whose read-only test is an if, not an else-if
RECURSIVE CountFromNoElse(_, _, _)
CountFromNoElse(accts, i, h) ==
    IF i > Len(accts) THEN h
    ELSE CountFromNoElse(accts, i + 1,
           [h EXCEPT !.NumSignatures = IF accts[i].IsSigner THEN Byte(@ + 1) ELSE @,
                     !.NumReadonlySigned =
                         IF accts[i].IsSigner /\ ~accts[i].IsWritable
                         THEN Byte(@ + 1) ELSE @,
                     !.NumReadOnly =
                         IF ~accts[i].IsWritable THEN Byte(@ + 1) ELSE @])

RECURSIVE CountFrom(_, _, _)
CountFrom(accts, i, h) ==
    IF i > Len(accts) THEN h
    ELSE CountFrom(accts, i + 1,
           IF accts[i].IsSigner
           THEN [h EXCEPT !.NumSignatures = Byte(@ + 1),
                          !.NumReadonlySigned =
                              IF ~accts[i].IsWritable THEN Byte(@ + 1) ELSE @]
           ELSE IF ~accts[i].IsWritable
                THEN [h EXCEPT !.NumReadOnly = Byte(@ + 1)]
                ELSE h)

ZeroHeader == [NumSignatures |-> 0, NumReadonlySigned |-> 0, NumReadOnly |-> 0]

MakeHeader(accts) == CountFrom(accts, 1, ZeroHeader)

CompileInstruction(keys, ins) ==
    [ProgramIndex |-> Byte(indexOf(keys, ins.Program)),
     Accounts |-> [k \in 1..Len(ins.Accounts) |->
                      Byte(indexOf(keys, ins.Accounts[k].PublicKey))],
     Data |-> ins.Data]

PadKey(k) == IF k = EmptyKey THEN ZeroKey ELSE k

\* the Transaction built from the sorted, deduplicated account list
BuildTransaction(accts, instrs) ==
    LET keys == [i \in 1..Len(accts) |-> accts[i].PublicKey]
        h == MakeHeader(accts)
    IN  [Signatures |-> [i \in 1..h.NumSignatures |-> EmptySig],
         Message |->
           [Header |-> h,
            Accounts |-> [i \in 1..Len(keys) |-> PadKey(keys[i])],
            RecentBlockhash |-> 0,
            Instructions |-> [i \in 1..Len(instrs) |->
                                 CompileInstruction(keys, instrs[i])]]]

\* -------------------------------------------------------------------- Sign
\* Message.Marshal: header, account table, recent blockhash, instructions
Marshal(m) == <<m.Header, m.Accounts, m.RecentBlockhash, m.Instructions>>

\* ed25519.Sign: deterministic in the key and the message
Ed25519Sign(s, messageBytes) == [key |-> s, msg |-> messageBytes]

ErrNone == "nil"
ErrUnknownSigner == "is not in the account list"
ErrNotASigner == "is not in the list of signers"

\* a bounds test that is off by one
SignerErrorOffByOne(t, s) ==
    LET index == indexOf(t.Message.Accounts, s)
    IN  IF index < 0 THEN ErrUnknownSigner
        ELSE IF index > Len(t.Signatures) THEN ErrNotASigner
        ELSE ErrNone

SignerError(t, s) ==
    LET index == indexOf(t.Message.Accounts, s)
    IN  IF index < 0 THEN ErrUnknownSigner
        ELSE IF index >= Len(t.Signatures) THEN ErrNotASigner
        ELSE ErrNone

\* a write to the slot before the key's own
SignOneShifted(t, s, messageBytes) ==
    LET pos == indexOf(t.Message.Accounts, s)
    IN  IF pos = 0 THEN t
        ELSE [t EXCEPT !.Signatures[pos] = Ed25519Sign(s, messageBytes)]

SignOne(t, s, messageBytes) ==
    [t EXCEPT !.Signatures[indexOf(t.Message.Accounts, s) + 1] =
                  Ed25519Sign(s, messageBytes)]

\* a loop that remembers the first error and goes on with the remaining keys
RECURSIVE SignFromContinue(_, _, _, _)
SignFromContinue(t, signers, i, messageBytes) ==
    IF i > Len(signers) THEN [t |-> t, err |-> ErrNone, done |-> Len(signers)]
    ELSE LET e == SignerError(t, signers[i])
         IN  IF e # ErrNone
             THEN LET r == SignFromContinue(t, signers, i + 1, messageBytes)
                  IN  [t |-> r.t, err |-> e, done |-> i - 1]
             ELSE SignFromContinue(SignOne(t, signers[i], messageBytes),
                                   signers, i + 1, messageBytes)

RECURSIVE SignFrom(_, _, _, _)
SignFrom(t, signers, i, messageBytes) ==
    IF i > Len(signers) THEN [t |-> t, err |-> ErrNone, done |-> Len(signers)]
    ELSE LET e == SignerError(t, signers[i])
         IN  IF e # ErrNone THEN [t |-> t, err |-> e, done |-> i - 1]
             ELSE SignFrom(SignOne(t, signers[i], messageBytes),
                           signers, i + 1, messageBytes)

SignResult(t, signers) == SignFrom(t, signers, 1, Marshal(t.Message))

\* ---------------------------------------------------------------- the state
VARIABLES
    payer,         \* NewTransaction's payer argument
    instructions,  \* NewTransaction's instructions argument
    pc,            \* "new" before NewTransaction has run, "built" after
    accounts,      \* NewTransaction's local accounts after filterUnique and sort
    tx,            \* the Transaction
    err,           \* the error the last Sign call returned
    signedMsg      \* per key, the message bytes of its latest signature written

vars == <<payer, instructions, pc, accounts, tx, err, signedMsg>>

NoTransaction ==
    [Signatures |-> <<>>,
     Message |-> [Header |-> ZeroHeader, Accounts |-> <<>>,
                  RecentBlockhash |-> 0, Instructions |-> <<>>]]

\* the shapes of the lists of exactly n instructions that name at most refs
\* keys in all, one for each program and one for each account (refs >= n): the
\* number of accounts of each instruction
RECURSIVE ShapesOf(_, _)
ShapesOf(n, refs) ==
    IF n = 0 THEN {<<>>}
    ELSE UNION {{<<a>> \o rest : rest \in ShapesOf(n - 1, refs - 1 - a)} :
                  a \in 0..(refs - n)}

Shapes(maxInstr, maxRefs) ==
    UNION {ShapesOf(n, maxRefs) :
             n \in 0..(IF maxInstr < maxRefs THEN maxInstr ELSE maxRefs)}

RECURSIVE SumTo(_, _)
SumTo(shape, i) == IF i = 0 THEN 0 ELSE shape[i] + SumTo(shape, i - 1)

\* the instruction list of the given shape, programs and account entries
InstructionList(shape, programs, metas) ==
    [i \in 1..Len(shape) |->
        [Program |-> programs[i],
         Accounts |-> [k \in 1..shape[i] |-> metas[SumTo(shape, i - 1) + k]],
         Data |-> <<>>]]

InitWith(payers, maxInstr, maxRefs) ==
    /\ payer \in payers
    /\ \E shape \in Shapes(maxInstr, maxRefs) :
         \E programs \in [1..Len(shape) -> Keys] :
           \E metas \in [1..SumTo(shape, Len(shape)) -> CallerAccountMetas] :
             instructions = InstructionList(shape, programs, metas)
    /\ pc = "new"
    /\ accounts = <<>>
    /\ tx = NoTransaction
    /\ err = ErrNone
    /\ signedMsg = [k \in Keys |-> <<>>]

NewTransaction ==
    /\ pc = "new"
    /\ \E sorted \in SortResults(Range(filterUnique(Collect(payer, instructions)))) :
          /\ accounts' = sorted
          /\ tx' = BuildTransaction(sorted, instructions)
    /\ pc' = "built"
    /\ UNCHANGED <<payer, instructions, err, signedMsg>>

\* a setter that also empties the signature slots
SetBlockhashTxClearing(t, bh) ==
    [t EXCEPT !.Message.RecentBlockhash = bh,
              !.Signatures = [i \in 1..Len(t.Signatures) |-> EmptySig]]

SetBlockhashTx(t, bh) == [t EXCEPT !.Message.RecentBlockhash = bh]

SetBlockhash(bh) ==
    /\ pc = "built"
    /\ tx' = SetBlockhashTx(tx, bh)
    /\ UNCHANGED <<payer, instructions, pc, accounts, err, signedMsg>>

Sign(signers) ==
    /\ pc = "built"
    /\ LET r == SignResult(tx, signers)
       IN  /\ tx' = r.t
           /\ err' = r.err
           /\ signedMsg' =
                [k \in Keys |->
                    IF \E i \in 1..r.done : signers[i] = k
                    THEN Marshal(tx.Message) ELSE signedMsg[k]]
    /\ UNCHANGED <<payer, instructions, pc, accounts>>

\* the life of one Transaction: built, then SetBlockhash and Sign in any order.
\* The code compares keys for equality only (bytes.Equal), so the payer is
\* drawn from the first NumSignPayers keys; the instructions name any key.
Init == InitWith(1..NumSignPayers, MaxSignInstructions, MaxRefs)

Next ==
    \/ NewTransaction
    \/ \E bh \in Blockhashes : SetBlockhash(bh)
    \/ \E signers \in SeqsUpTo(Keys, MaxSigners) : Sign(signers)

Spec == Init /\ [][Next]_vars

\* compilation alone, over every payer and lists of several instructions
CompileInit == InitWith(Keys, MaxRefs, MaxRefs)

CompileNext == NewTransaction

CompileSpec == CompileInit /\ [][CompileNext]_vars

\* ------------------------------------------------- vocabulary of the claims
Built == pc = "built"
Table == tx.Message.Accounts
Hdr == tx.Message.Header
Slots == tx.Signatures

\* every appearance of a key: the payer entry, the program references and the
\* instruction account lists
Appearances == Range(Collect(payer, instructions))
AppearancesOf(k) == {a \in Appearances : a.PublicKey = k}
AppearingKeys == {a.PublicKey : a \in Appearances}
SignerKey(k) == \E a \in AppearancesOf(k) : a.IsSigner
WritableKey(k) == \E a \in AppearancesOf(k) : a.IsWritable
PayerKey(k) == \E a \in AppearancesOf(k) : a.isPayer
PositionsOf(k) == {i \in 1..Len(Table) : Table[i] = k}

\* C1: in a compiled message the first numSignatures table entries are exactly
\* the signers, the first numSignatures - numReadonlySigned are exactly the
\* writable signers, the last numReadOnly are exactly the accounts that are
\* neither signer nor writable, and numSignatures >= numReadonlySigned.
C1_Partition ==
    Built =>
      /\ Hdr.NumSignatures >= Hdr.NumReadonlySigned
      /\ \A i \in 1..Len(Table) :
           /\ (i <= Hdr.NumSignatures) <=> SignerKey(Table[i])
           /\ (i <= Hdr.NumSignatures - Hdr.NumReadonlySigned)
                 <=> (SignerKey(Table[i]) /\ WritableKey(Table[i]))
           /\ (i > Len(Table) - Hdr.NumReadOnly)
                 <=> (~SignerKey(Table[i]) /\ ~WritableKey(Table[i]))

\* a message with a read-only signer, a writable non-signer and a read-only one
C1_Witness ==
    /\ Built
    /\ Hdr.NumReadonlySigned >= 1
    /\ Hdr.NumReadOnly >= 1
    /\ Len(Table) > Hdr.NumSignatures + Hdr.NumReadOnly

\* C2: the payer is the first table entry and is counted as a writable signer.
C2_PayerFirst ==
    Built =>
      /\ Len(Table) >= 1
      /\ Table[1] = payer
      /\ Hdr.NumSignatures >= 1
      /\ Hdr.NumSignatures - Hdr.NumReadonlySigned >= 1

\* the payer key also appears as a program and as a read-only non-signer
\* account, next to another writable signer
C2_Witness ==
    /\ Built
    /\ \E i \in 1..Len(instructions) :
         /\ instructions[i].Program = payer
         /\ \E k \in 1..Len(instructions[i].Accounts) :
              /\ instructions[i].Accounts[k].PublicKey = payer
              /\ ~instructions[i].Accounts[k].IsSigner
              /\ ~instructions[i].Accounts[k].IsWritable
    /\ \E a \in Appearances :
         a.PublicKey # payer /\ a.IsSigner /\ a.IsWritable

\* C3: every compiled index is a position of the table, and the table holds
\* there the key the original instruction names.
C3_IndexRoundTrip ==
    Built =>
      /\ Len(tx.Message.Instructions) = Len(instructions)
      /\ \A i \in 1..Len(instructions) :
           LET c == tx.Message.Instructions[i]
               o == instructions[i]
           IN  /\ c.ProgramIndex < Len(Table)
               /\ Table[c.ProgramIndex + 1] = o.Program
               /\ Len(c.Accounts) = Len(o.Accounts)
               /\ \A k \in 1..Len(o.Accounts) :
                    /\ c.Accounts[k] < Len(Table)
                    /\ Table[c.Accounts[k] + 1] = o.Accounts[k].PublicKey

\* two instructions, the second naming an account at a non-zero index
C3_Witness ==
    /\ Built
    /\ Len(tx.Message.Instructions) = 2
    /\ Len(tx.Message.Instructions[2].Accounts) >= 1
    /\ tx.Message.Instructions[2].Accounts[1] >= 2
    /\ tx.Message.Instructions[1].ProgramIndex # tx.Message.Instructions[2].ProgramIndex

\* C4: every key that appears is in the table exactly once, the table holds
\* nothing else, and its merged isSigner, isWritable and isPayer flags are the
\* OR of the flag over all of its appearances.
C4_DedupOr ==
    Built =>
      /\ Range(Table) = AppearingKeys
      /\ Len(accounts) = Len(Table)
      /\ \A k \in AppearingKeys : Cardinality(PositionsOf(k)) = 1
      /\ \A i \in 1..Len(accounts) :
           /\ accounts[i].PublicKey = Table[i]
           /\ accounts[i].IsSigner = SignerKey(Table[i])
           /\ accounts[i].IsWritable = WritableKey(Table[i])
           /\ accounts[i].isPayer = PayerKey(Table[i])

\* a key seen three times: as a program, as a writable account, then as a
\* signer account
C4_Witness ==
    /\ Built
    /\ \E i \in 1..Len(instructions) :
         /\ Len(instructions[i].Accounts) = 2
         /\ instructions[i].Program # payer
         /\ instructions[i].Accounts[1].PublicKey = instructions[i].Program
         /\ instructions[i].Accounts[2].PublicKey = instructions[i].Program
         /\ instructions[i].Accounts[1].IsWritable
         /\ ~instructions[i].Accounts[1].IsSigner
         /\ instructions[i].Accounts[2].IsSigner
         /\ ~instructions[i].Accounts[2].IsWritable

\* C10: for every key other than the payer that appears both as a program
\* reference and as an instruction account, the merged isProgram flag is the
\* OR over its appearances (TRUE), whichever reference comes first.
C10_ProgramFlagOr ==
    Built =>
      \A i \in 1..Len(accounts) :
        (/\ accounts[i].PublicKey # payer
         /\ \E a \in AppearancesOf(accounts[i].PublicKey) : a.isProgram
         /\ \E a \in AppearancesOf(accounts[i].PublicKey) : ~a.isProgram)
        => accounts[i].isProgram

\* ------------------------------------------------------ the signing claims
KeyIndex(k) == (CHOOSE i \in PositionsOf(k) : \A j \in PositionsOf(k) : i <= j) - 1
SignerSlotKeys == {Table[i] : i \in 1..Hdr.NumSignatures}
Verifies(sig, k, messageBytes) == sig = Ed25519Sign(k, messageBytes)

\* C5: signing with a key that is not in the table fails with UnknownSigner,
\* with a key of the table at an index >= numSignatures (a key present only
\* as a program reference is one) with NotASigner; signing with the payer key
\* succeeds and writes slot 0.
C5_SigningContract ==
    [][\A k \in Keys :
         (Built /\ Sign(<<k>>)) =>
           /\ (PositionsOf(k) = {}) => (err' = ErrUnknownSigner)
           /\ (PositionsOf(k) # {} /\ KeyIndex(k) >= Hdr.NumSignatures)
                 => (err' = ErrNotASigner)
           /\ (k # payer /\ AppearancesOf(k) # {}
               /\ \A a \in AppearancesOf(k) : a.isProgram)
                 => (err' = ErrNotASigner)
           /\ (k = payer) =>
                 /\ err' = ErrNone
                 /\ tx'.Signatures[1] = Ed25519Sign(payer, Marshal(tx.Message))
                 /\ \A i \in 2..Len(Slots) : tx'.Signatures[i] = Slots[i]]_vars

\* the payer has signed, and a later call with a program key was refused
C5_Witness ==
    /\ Built
    /\ err = ErrNotASigner
    /\ Len(Slots) >= 1
    /\ Slots[1] # EmptySig

C6_SlotShape ==
    /\ Len(Slots) = Hdr.NumSignatures
    /\ \A i \in 1..Len(Slots) :
         Slots[i] = IF signedMsg[Table[i]] = <<>> THEN EmptySig
                    ELSE Ed25519Sign(Table[i], signedMsg[Table[i]])

C6_Commute ==
    \A a, b \in Keys :
      LET ra == SignResult(tx, <<a>>)
          rb == SignResult(tx, <<b>>)
          rab == SignResult(ra.t, <<b>>)
          rba == SignResult(rb.t, <<a>>)
      IN  (a # b /\ ra.err = ErrNone /\ rb.err = ErrNone) =>
            /\ rab.err = ErrNone
            /\ rba.err = ErrNone
            /\ rab.t = rba.t

C6_Keep ==
    Built =>
      /\ Len(tx'.Signatures) = Len(Slots)
      /\ \A i \in 1..Len(Slots) :
           Slots[i] # EmptySig =>
             /\ tx'.Signatures[i] # EmptySig
             /\ tx'.Signatures[i].key = Slots[i].key

\* C6: there are always numSignatures slots; slot i is empty while key
\* accounts[i] has not signed and otherwise holds the signature of its latest
\* signing by that key; a filled slot is never cleared nor taken by another
\* key; signing with two different keys gives the same slots in either order.
C6_Accumulate ==
    /\ [](Built => (C6_SlotShape /\ C6_Commute))
    /\ [][C6_Keep]_vars

\* two different keys have signed, one of them at another blockhash
C6_Witness ==
    /\ Built
    /\ Len(Slots) >= 2
    /\ Slots[1] # EmptySig
    /\ Slots[2] # EmptySig
    /\ Slots[1].msg # Slots[2].msg

\* a step of a Sign call that returned an error
C7_Failed ==
    /\ Built
    /\ err' # ErrNone
    /\ \E signers \in SeqsUpTo(Keys, MaxSigners) : Sign(signers)

\* C7 as stated: a Sign call that returns an error leaves every slot, and the
\* message, as they were.
C7_NoSlotMutated ==
    [][C7_Failed => tx' = tx]_vars

\* C7 amended: a Sign call that returns an error stops at the first failing
\* key; the slots of the valid signer keys listed before it hold their new
\* signatures, every other slot and the message are as they were.
C7_StopAtFirstError ==
    [][(Built /\ err' # ErrNone) =>
         \A signers \in SeqsUpTo(Keys, MaxSigners) : Sign(signers) =>
           LET bad == {i \in 1..Len(signers) : signers[i] \notin SignerSlotKeys}
               f == CHOOSE i \in bad : \A j \in bad : i <= j
               written == {signers[i] : i \in 1..(f - 1)}
           IN  /\ bad # {}
               /\ err' = IF PositionsOf(signers[f]) = {}
                         THEN ErrUnknownSigner ELSE ErrNotASigner
               /\ tx'.Message = tx.Message
               /\ Len(tx'.Signatures) = Len(Slots)
               /\ \A i \in 1..Len(Slots) :
                    tx'.Signatures[i] =
                       IF Table[i] \in written
                       THEN Ed25519Sign(Table[i], Marshal(tx.Message))
                       ELSE Slots[i]]_vars

\* a call has failed on a transaction of two signers of which exactly one
\* has a signature
C7_Witness ==
    /\ Built
    /\ err # ErrNone
    /\ Len(Slots) = 2
    /\ Slots[1] # EmptySig
    /\ Slots[2] = EmptySig

\* a filled slot matches the current payload exactly when the blockhash it
\* was signed under is the current one
C8_MatchIffSameBlockhash ==
    \A i \in 1..Len(Slots) :
      Slots[i] # EmptySig =>
        (Verifies(Slots[i], Table[i], Marshal(tx.Message))
           <=> (signedMsg[Table[i]][3] = tx.Message.RecentBlockhash))

C8_SetBlockhashStep ==
    \A bh \in Blockhashes :
      (Built /\ SetBlockhash(bh) /\ bh # tx.Message.RecentBlockhash) =>
        /\ Marshal(tx'.Message) # Marshal(tx.Message)
        /\ tx'.Message.RecentBlockhash = bh
        /\ tx'.Signatures = tx.Signatures
        /\ tx'.Message.Header = tx.Message.Header
        /\ tx'.Message.Accounts = tx.Message.Accounts
        /\ tx'.Message.Instructions = tx.Message.Instructions
        /\ \A i \in 1..Len(Slots) :
             Verifies(Slots[i], Table[i], Marshal(tx.Message))
               => ~Verifies(tx'.Signatures[i], Table[i], Marshal(tx'.Message))

C8_SignAgainStep ==
    \A k \in Keys :
      (Built /\ Sign(<<k>>) /\ err' = ErrNone) =>
        Verifies(tx'.Signatures[KeyIndex(k) + 1], k, Marshal(tx'.Message))

C9_Scenario ==
    /\ Len(instructions) = 1
    /\ Len(instructions[1].Accounts) = 2
    /\ Cardinality({payer, instructions[1].Program,
                    instructions[1].Accounts[1].PublicKey,
                    instructions[1].Accounts[2].PublicKey}) = 4
    /\ instructions[1].Accounts[1].IsSigner
    /\ instructions[1].Accounts[1].IsWritable
    /\ ~instructions[1].Accounts[2].IsSigner
    /\ ~instructions[1].Accounts[2].IsWritable

C9_TableAndSigning ==
    LET P == payer
        G == instructions[1].Program
        A == instructions[1].Accounts[1].PublicKey
        B == instructions[1].Accounts[2].PublicKey
        rP == SignResult(tx, <<P>>)
        rA == SignResult(rP.t, <<A>>)
    IN  /\ Table = <<P, A, B, G>>
        /\ Len(Slots) = 2
        /\ rP.err = ErrNone
        /\ rA.err = ErrNone
        /\ rA.t.Signatures = <<Ed25519Sign(P, Marshal(tx.Message)),
                               Ed25519Sign(A, Marshal(tx.Message))>>
        /\ SignResult(tx, <<G>>).err = ErrNotASigner

\* C9 as stated: the table is [P, A, B, G], the header is {2, 0, 1}, Sign(P)
\* then Sign(A) fill slots 0 and 1, Sign(G) fails with NotASigner.
C9_HeaderOneReadOnly ==
    (Built /\ C9_Scenario) =>
      /\ C9_TableAndSigning
      /\ Hdr = [NumSignatures |-> 2, NumReadonlySigned |-> 0, NumReadOnly |-> 1]

\* C9 amended: the same with header {2, 0, 2}: B and G are both read-only
\* non-signers.
C9_HeaderTwoReadOnly ==
    (Built /\ C9_Scenario) =>
      /\ C9_TableAndSigning
      /\ Hdr = [NumSignatures |-> 2, NumReadonlySigned |-> 0, NumReadOnly |-> 2]

\* the scenario after Sign(P), Sign(A) and a refused Sign(G)
C9_Witness ==
    /\ Built
    /\ C9_Scenario
    /\ Slots[1] # EmptySig
    /\ Slots[2] # EmptySig
    /\ err = ErrNotASigner

====
